---------------------------- MODULE Spec2Model ----------------------------
(***************************************************************************)
(* Product catalog demo: the ProductsPage viewer and its AddProductForm    *)
(* (React client), and the Express /products router over one MySQL table.  *)
(*                                                                         *)
(* Text is a sequence of one-character strings, so that trim() and         *)
(* Number() are computed character by character as JavaScript does.        *)
(* One action is one JavaScript run-to-completion step: an event handler   *)
(* up to its first await, or the continuation after an await resolves.     *)
(***************************************************************************)
EXTENDS Integers, Sequences, FiniteSets

VARIABLES
    \* ---- AddProductForm state (useState hooks) ----
    title, price, description, category, imageB64, previewSrc,
    submitting, formError, success,
    \* ---- AddProductForm asynchronous activity ----
    calls,          \* running handleSubmit invocations, oldest first
    reads,          \* FileReader reads started by handleImageChange, oldest first
    \* ---- ProductsPage state ----
    products, loading, pageError,
    viewPc,         \* position of the mount effect: "fetch", "json", "done"
    \* ---- history of the client, read by the properties only ----
    fetched,        \* the collection the initial fetch delivered
    created,        \* records handed to onSuccess, oldest first
    fetchFailed,    \* the initial fetch rejected or was not ok
    submitCount,    \* handleSubmit invocations started so far
    \* ---- Product Resource API ----
    table,          \* products table: id -> row, or NoRow
    nextId,         \* AUTO_INCREMENT counter
    handler,        \* per client: the request handler in progress
    resp,           \* the response the latest step sent, or NoResponse
    deleted         \* ids whose DELETE answered "Product deleted"

formVars == <<title, price, description, category, imageB64, previewSrc,
              submitting, formError, success, calls, reads>>
pageVars == <<products, loading, pageError, viewPc>>
histVars == <<fetched, created, fetchFailed, submitCount>>
clientVars == <<formVars, pageVars, histVars>>
serverVars == <<table, nextId, handler, resp, deleted>>
vars == <<clientVars, serverVars>>

-----------------------------------------------------------------------------
(* Bounds of the model. *)

\* handleSubmit invocations explored on one form instance.
MaxSubmits == 2
\* FileReader reads that may be pending at once.
MaxReads == 1
\* Rows the table's AUTO_INCREMENT hands out.
MaxRows == 2

-----------------------------------------------------------------------------
(* JavaScript values. *)

\* null and undefined, as texts no character sequence equals (every character
\* of a text is one character long).
Null == <<"null">>
Undefined == <<"undefined">>
NaN == [nan |-> TRUE, num |-> 0, scale |-> 0]

\* A finite decimal num / 10^scale.
Dec(n, s) == [nan |-> FALSE, num |-> n, scale |-> s]

\* Characters String.prototype.trim() strips (those the inputs below use).
Whitespace == {" ", "\t"}

Digits == {"0", "1", "2", "3", "4", "5", "6", "7", "8", "9"}

DigitVal(c) ==
    CASE c = "0" -> 0 [] c = "1" -> 1 [] c = "2" -> 2 [] c = "3" -> 3
      [] c = "4" -> 4 [] c = "5" -> 5 [] c = "6" -> 6 [] c = "7" -> 7
      [] c = "8" -> 8 [] c = "9" -> 9

RECURSIVE trimStart(_)
trimStart(s) ==
    IF s # <<>> /\ Head(s) \in Whitespace THEN trimStart(Tail(s)) ELSE s

RECURSIVE trimEnd(_)
trimEnd(s) ==
    IF s # <<>> /\ s[Len(s)] \in Whitespace
    THEN trimEnd(SubSeq(s, 1, Len(s) - 1))
    ELSE s

\* String.prototype.trim()
trim(s) == trimEnd(trimStart(s))

\* The digits of a decimal literal read as one integer, the point skipped.
RECURSIVE DigitsValue(_, _)
DigitsValue(u, acc) ==
    IF u = <<>> THEN acc
    ELSE IF Head(u) = "." THEN DigitsValue(Tail(u), acc)
    ELSE DigitsValue(Tail(u), 10 * acc + DigitVal(Head(u)))

\* StrUnsignedDecimalLiteral without exponent: digits with at most one point.
IsDecimalLiteral(u) ==
    /\ \A i \in 1..Len(u) : u[i] \in Digits \cup {"."}
    /\ \E i \in 1..Len(u) : u[i] \in Digits
    /\ Cardinality({i \in 1..Len(u) : u[i] = "."}) <= 1

FractionDigits(u) ==
    IF \E i \in 1..Len(u) : u[i] = "."
    THEN Len(u) - (CHOOSE i \in 1..Len(u) : u[i] = ".")
    ELSE 0

\* Number(string): StringToNumber. Blank text is 0, a signed decimal literal
\* is its value, anything else is NaN.
Number(s) ==
    LET t == trim(s) IN
    IF t = <<>> THEN Dec(0, 0)
    ELSE LET signed == Head(t) \in {"-", "+"}
             u == IF signed THEN Tail(t) ELSE t
             sign == IF Head(t) = "-" THEN -1 ELSE 1
         IN IF IsDecimalLiteral(u)
            THEN Dec(sign * DigitsValue(u, 0), FractionDigits(u))
            ELSE NaN

\* x > 0 on numbers: false for NaN.
GreaterThanZero(n) == ~n.nan /\ n.num > 0

\* String.prototype.startsWith
startsWith(s, p) == Len(s) >= Len(p) /\ SubSeq(s, 1, Len(p)) = p

\* err?.message ?? fallback
MessageOr(err, fallback) ==
    IF err.message = Undefined \/ err.message = Null THEN fallback
    ELSE err.message

\* Truthiness of a string-or-null state value, as in `if (error)`.
Truthy(v) == v # Null /\ v # <<>>

-----------------------------------------------------------------------------
(* The client's environment: what the user types and picks, and what the     *)
(* network and the FileReader answer.                                        *)

TitleInputs == {<<>>, <<" ">>, <<" ", "a", " ">>}
DescriptionInputs == {<<>>, <<"\t">>, <<"d">>}
CategoryInputs == {<<>>, <<" ", " ">>, <<"c", " ">>}
\* value of an <input type="number">: empty or a floating-point literal
PriceInputs == {<<>>, <<"0">>, <<"-", "5">>, <<"0", ".", "5">>}

PngFile == [type |-> <<"image/", "png">>, bytes |-> <<"iVBORw0KGgo=">>, readable |-> TRUE]
BrokenFile == [type |-> <<"image/", "jpeg">>, bytes |-> <<>>, readable |-> FALSE]
TextFile == [type |-> <<"text/", "plain">>, bytes |-> <<"aGk=">>, readable |-> TRUE]
NoFile == [type |-> <<>>, bytes |-> <<>>, readable |-> FALSE]
Files == {PngFile, BrokenFile, TextFile}

\* Reasons a fetch(), a body read or a JSON parse rejects with: an Error with
\* a message (browsers reject with a TypeError or SyntaxError whose message is
\* not empty), or a value without a message.
Rejections == {[message |-> <<"Failed to fetch">>], [message |-> Undefined]}

Statuses == {200, 500}
ErrorBodies == {<<"oops">>}

NoRating == [absent |-> TRUE]
ZeroRating == [rate |-> 0, count |-> 0]
SomeRating == [rate |-> 4, count |-> 120]

CatalogItem(i, r) ==
    [id |-> i, title |-> <<"t">>, price |-> Dec(10 * i, 0), description |-> <<"x">>,
     image |-> <<"https://img/", "x">>, category |-> <<"k">>, rating |-> r]
Catalogs == {<<>>, <<CatalogItem(1, SomeRating), CatalogItem(2, NoRating)>>}

\* The created record the remote service answers a create with: the payload
\* and a newly assigned id, with or without a rating.
CreateResponses(payload, n) ==
    {[id |-> 21 + n, title |-> payload.title, price |-> payload.price,
      description |-> payload.description, image |-> payload.image,
      category |-> payload.category, rating |-> r] : r \in {NoRating, SomeRating}}

-----------------------------------------------------------------------------
(* ProductsPage *)

\* Mutant of ok: the status is never looked at.
okAlways(status) == TRUE

\* Response.ok
ok(status) == status >= 200 /\ status <= 299

\* String(status) of the statuses the environment answers with.
StatusText(status) ==
    CASE status = 200 -> "200" [] status = 201 -> "201"
      [] status = 404 -> "404" [] status = 500 -> "500"

\* Template literal `HTTP ${res.status}`; the status text is kept as one token.
HttpMessage(status) == <<"HTTP ", StatusText(status)>>

\* The three returns of the component's render.
renderState ==
    IF loading THEN "loading"
    ELSE IF Truthy(pageError) THEN "error"
    ELSE "ready"

\* catch + finally of the mount effect
PageCatch(err) ==
    /\ pageError' = MessageOr(err, <<"Failed to load products">>)
    /\ loading' = FALSE
    /\ viewPc' = "done"
    /\ UNCHANGED <<products, fetched>>

\* await fetch(...) rejects
PageFetchReject ==
    /\ viewPc = "fetch"
    /\ \E err \in Rejections : PageCatch(err)
    /\ fetchFailed' = TRUE
    /\ UNCHANGED <<formVars, created, submitCount, serverVars>>

\* await fetch(...) resolves; a response that is not ok is thrown
PageFetchResponse ==
    /\ viewPc = "fetch"
    /\ \E status \in Statuses :
          IF ~ok(status)
          THEN /\ PageCatch([message |-> HttpMessage(status)])
               /\ fetchFailed' = (status \notin 200..299)
          ELSE /\ viewPc' = "json"
               /\ fetchFailed' = (status \notin 200..299)
               /\ UNCHANGED <<products, loading, pageError, fetched>>
    /\ UNCHANGED <<formVars, created, submitCount, serverVars>>

\* await res.json() resolves: setProducts(data), then finally
PageJsonResolve ==
    /\ viewPc = "json"
    /\ \E data \in Catalogs :
          /\ products' = data
          /\ fetched' = data
    /\ loading' = FALSE
    /\ viewPc' = "done"
    /\ UNCHANGED <<pageError, fetchFailed>>
    /\ UNCHANGED <<formVars, created, submitCount, serverVars>>

\* await res.json() rejects
PageJsonReject ==
    /\ viewPc = "json"
    /\ \E err \in Rejections : PageCatch(err)
    /\ fetchFailed' = TRUE
    /\ UNCHANGED <<formVars, created, submitCount, serverVars>>

\* Mutant of onSuccess: the created record is put at the end.
onSuccessAppend(data, prev) == prev \o <<[data EXCEPT !.rating = ZeroRating]>>

\* The updater of onSuccess: the created record, its rating replaced, in front.
onSuccess(data, prev) == <<[data EXCEPT !.rating = ZeroRating]>> \o prev

-----------------------------------------------------------------------------
(* AddProductForm *)

\* The form is mounted by the page's last return only.
Mounted == renderState = "ready"

\* Mutant of allValid: the text fields are measured without trim().
allValidUntrimmed ==
    /\ Len(title) > 0
    /\ GreaterThanZero(Number(price))
    /\ Len(description) > 0
    /\ Len(category) > 0
    /\ Len(imageB64) > 0
    /\ ~submitting

\* Enables the submit button; a disabled default button also blocks implicit
\* submission, so handleSubmit runs only where this holds.
allValid ==
    /\ Len(trim(title)) > 0
    /\ GreaterThanZero(Number(price))
    /\ Len(trim(description)) > 0
    /\ Len(trim(category)) > 0
    /\ Len(trim(imageB64)) > 0
    /\ ~submitting

\* Mutant of resetForm: the image payload is kept.
resetFormKeepsImage ==
    /\ title' = <<>>
    /\ price' = <<>>
    /\ description' = <<>>
    /\ category' = <<>>
    /\ UNCHANGED <<imageB64, previewSrc>>

resetForm ==
    /\ title' = <<>>
    /\ price' = <<>>
    /\ description' = <<>>
    /\ category' = <<>>
    /\ imageB64' = <<>>
    /\ previewSrc' = <<>>

\* reader.readAsDataURL(file), on load String(reader.result): a data: URI
fileToBase64(file) == <<"data:">> \o file.type \o <<";base64,">> \o file.bytes

\* The payload handleSubmit builds from the fields.
BuildPayload ==
    [title |-> trim(title), price |-> Number(price),
     description |-> trim(description), image |-> imageB64,
     category |-> trim(category)]

\* Template literal `HTTP ${res.status} - ${text}` (the separator stands for
\* the source's em dash).
SubmitHttpMessage(status, text) ==
    <<"HTTP ", StatusText(status), " - ">> \o text

RemoveAt(seq, i) == SubSeq(seq, 1, i - 1) \o SubSeq(seq, i + 1, Len(seq))

fieldVars == <<title, price, description, category, imageB64, previewSrc>>
notForm == <<pageVars, fetched, fetchFailed, serverVars>>

\* onChange of the four inputs
setTitle ==
    /\ Mounted
    /\ \E v \in TitleInputs : title' = v
    /\ UNCHANGED <<price, description, category, imageB64, previewSrc, submitting,
                   formError, success, calls, reads, created, submitCount, notForm>>

setPrice ==
    /\ Mounted
    /\ \E v \in PriceInputs : price' = v
    /\ UNCHANGED <<title, description, category, imageB64, previewSrc, submitting,
                   formError, success, calls, reads, created, submitCount, notForm>>

setDescription ==
    /\ Mounted
    /\ \E v \in DescriptionInputs : description' = v
    /\ UNCHANGED <<title, price, category, imageB64, previewSrc, submitting,
                   formError, success, calls, reads, created, submitCount, notForm>>

setCategory ==
    /\ Mounted
    /\ \E v \in CategoryInputs : category' = v
    /\ UNCHANGED <<title, price, description, imageB64, previewSrc, submitting,
                   formError, success, calls, reads, created, submitCount, notForm>>

\* onClick of the Reset button
ResetClick ==
    /\ Mounted
    /\ resetForm
    /\ UNCHANGED <<submitting, formError, success, calls, reads, created,
                   submitCount, notForm>>

\* handleImageChange up to its await
handleImageChange ==
    /\ Mounted
    /\ \E file \in Files \cup {NoFile} :
          IF file = NoFile
          THEN UNCHANGED <<formError, reads>>
          ELSE IF ~startsWith(file.type, <<"image/">>)
          THEN /\ formError' = <<"Please choose a valid image file.">>
               /\ UNCHANGED reads
          ELSE /\ Len(reads) < MaxReads
               /\ formError' = Null
               /\ reads' = Append(reads, file)
    /\ UNCHANGED <<fieldVars, submitting, success, calls, created, submitCount, notForm>>

\* reader.onload: the awaited fileToBase64 resolves
ImageLoaded ==
    /\ \E i \in 1..Len(reads) :
          /\ reads[i].readable
          /\ imageB64' = fileToBase64(reads[i])
          /\ previewSrc' = fileToBase64(reads[i])
          /\ reads' = RemoveAt(reads, i)
    /\ UNCHANGED <<title, price, description, category, submitting, formError,
                   success, calls, created, submitCount, notForm>>

\* reader.onerror: the awaited fileToBase64 rejects
ImageFailed ==
    /\ \E i \in 1..Len(reads) :
          /\ ~reads[i].readable
          /\ reads' = RemoveAt(reads, i)
    /\ formError' = <<"Failed to read image file.">>
    /\ UNCHANGED <<fieldVars, submitting, success, calls, created, submitCount, notForm>>

\* Mutant of CanSubmit: the button is not disabled while submitting.
CanSubmitWhileSubmitting ==
    /\ Len(trim(title)) > 0
    /\ GreaterThanZero(Number(price))
    /\ Len(trim(description)) > 0
    /\ Len(trim(category)) > 0
    /\ Len(trim(imageB64)) > 0

\* When the form's submit event can fire.
CanSubmit == allValid

\* handleSubmit up to its await fetch(...)
handleSubmit ==
    /\ Mounted
    /\ CanSubmit
    /\ submitCount < MaxSubmits
    /\ submitting' = TRUE
    /\ formError' = Null
    /\ success' = Null
    /\ calls' = Append(calls, [pc |-> "fetch", payload |-> BuildPayload, status |-> 0])
    /\ submitCount' = submitCount + 1
    /\ UNCHANGED <<fieldVars, reads, created, notForm>>

\* Mutant of SubmitCatch: no finally, submitting stays set.
SubmitCatchNoFinally(i, err) ==
    /\ formError' = MessageOr(err, <<"Failed to submit product.">>)
    /\ calls' = RemoveAt(calls, i)
    /\ UNCHANGED <<fieldVars, submitting, success, reads, created, submitCount, products>>

\* catch + finally of handleSubmit, ending invocation i
SubmitCatch(i, err) ==
    /\ formError' = MessageOr(err, <<"Failed to submit product.">>)
    /\ submitting' = FALSE
    /\ calls' = RemoveAt(calls, i)
    /\ UNCHANGED <<fieldVars, success, reads, created, submitCount, products>>

restOfPage == <<loading, pageError, viewPc, fetched, fetchFailed, serverVars>>

\* await fetch(...) rejects
SubmitFetchReject ==
    /\ \E i \in 1..Len(calls) :
          /\ calls[i].pc = "fetch"
          /\ \E err \in Rejections : SubmitCatch(i, err)
    /\ UNCHANGED restOfPage

\* await fetch(...) resolves with a response
SubmitFetchResponse ==
    /\ \E i \in 1..Len(calls), status \in Statuses :
          /\ calls[i].pc = "fetch"
          /\ calls' = [calls EXCEPT ![i].status = status,
                                    ![i].pc = IF ok(status) THEN "json" ELSE "text"]
    /\ UNCHANGED <<fieldVars, submitting, formError, success, reads, created,
                   submitCount, products, restOfPage>>

\* !res.ok: await res.text() resolves and the error is thrown
SubmitTextResolve ==
    /\ \E i \in 1..Len(calls), text \in ErrorBodies :
          /\ calls[i].pc = "text"
          /\ SubmitCatch(i, [message |-> SubmitHttpMessage(calls[i].status, text)])
    /\ UNCHANGED restOfPage

\* !res.ok: await res.text() rejects
SubmitTextReject ==
    /\ \E i \in 1..Len(calls), err \in Rejections :
          /\ calls[i].pc = "text"
          /\ SubmitCatch(i, err)
    /\ UNCHANGED restOfPage

\* await res.json() resolves: setSuccess, onSuccess, resetForm, then finally
SubmitJsonResolve ==
    /\ \E i \in 1..Len(calls) :
          /\ calls[i].pc = "json"
          /\ \E data \in CreateResponses(calls[i].payload, Len(created)) :
                /\ products' = onSuccess(data, products)
                /\ created' = Append(created, data)
          /\ calls' = RemoveAt(calls, i)
    /\ success' = <<"Product created successfully!">>
    /\ resetForm
    /\ submitting' = FALSE
    /\ UNCHANGED <<formError, reads, submitCount, restOfPage>>

\* await res.json() rejects
SubmitJsonReject ==
    /\ \E i \in 1..Len(calls), err \in Rejections :
          /\ calls[i].pc = "json"
          /\ SubmitCatch(i, err)
    /\ UNCHANGED restOfPage

-----------------------------------------------------------------------------
(* Product Resource API: request bodies and SQL statements. *)

\* JSON values of a request body; Jundef is a key the body does not have.
Jundef == [t |-> "undefined", n |-> 0, s |-> ""]
Jnull == [t |-> "null", n |-> 0, s |-> ""]
Jnum(n) == [t |-> "number", n |-> n, s |-> ""]
Jstr(s) == [t |-> "string", n |-> 0, s |-> s]

\* !v
Falsy(v) ==
    \/ v.t \in {"undefined", "null"}
    \/ v.t = "number" /\ v.n = 0
    \/ v.t = "string" /\ v.s = ""

\* v ?? null; also how an undefined query parameter is bound (as NULL)
OrNull(v) == IF v.t = "undefined" THEN Jnull ELSE v

Body(name, pr, desc, cat, img) ==
    [name |-> name, price |-> pr, description |-> desc, category |-> cat, image |-> img]

FullBody == Body(Jstr("n"), Jnum(5), Jstr("d"), Jstr("c"), Jstr("img"))
Bodies ==
    { FullBody,
      [FullBody EXCEPT !.image = Jundef],
      [FullBody EXCEPT !.price = Jnum(0)],
      [FullBody EXCEPT !.price = Jnum(-5)],
      [FullBody EXCEPT !.name = Jstr("")],
      [FullBody EXCEPT !.price = Jundef],
      [FullBody EXCEPT !.name = Jundef],
      [FullBody EXCEPT !.description = Jundef],
      [FullBody EXCEPT !.category = Jundef] }

\* Bodies of the PUT requests.
UpdateBody == Body(Jstr("m"), Jnum(7), Jstr("e"), Jstr("k"), Jundef)
PutBodies == {UpdateBody, [UpdateBody EXCEPT !.name = Jundef]}

Clients == {"c1", "c2"}
\* ids a request may name: every id handed out and one never handed out
RequestIds == 1..(MaxRows + 1)

\* No row: undefined (products[0] of an empty result).
NoRow == [id |-> 0, name |-> Jundef, price |-> Jundef, description |-> Jundef,
          category |-> Jundef, image |-> Jundef]

RowOf(id, body) ==
    [id |-> id, name |-> OrNull(body.name), price |-> OrNull(body.price),
     description |-> OrNull(body.description), category |-> OrNull(body.category),
     image |-> OrNull(body.image)]

\* The table is indexed by id; a deleted id keeps its place, empty.
Exists(t, id) == id \in 1..Len(t) /\ t[id] # NoRow

\* SELECT * FROM products ORDER BY id DESC
RECURSIVE SelectAllFrom(_, _)
SelectAllFrom(t, id) ==
    IF id = 0 THEN <<>>
    ELSE (IF t[id] # NoRow THEN <<t[id]>> ELSE <<>>) \o SelectAllFrom(t, id - 1)
SqlSelectAll(t) == SelectAllFrom(t, Len(t))

\* SELECT * FROM products WHERE id = ?
SqlSelectById(t, id) == IF Exists(t, id) THEN <<t[id]>> ELSE <<>>

\* INSERT INTO products (...) VALUES (...): the table, with insertId = Len
SqlInsert(t, body) == Append(t, RowOf(Len(t) + 1, body))

\* UPDATE products SET ... WHERE id = ?
SqlUpdate(t, id, body) == IF Exists(t, id) THEN [t EXCEPT ![id] = RowOf(id, body)] ELSE t

\* Mutant of SqlDelete: the WHERE clause is missing.
SqlDeleteAll(t, id) == [i \in 1..Len(t) |-> NoRow]

\* DELETE FROM products WHERE id = ?
SqlDelete(t, id) == IF Exists(t, id) THEN [t EXCEPT ![id] = NoRow] ELSE t

\* affectedRows of an UPDATE or DELETE ... WHERE id = ? (the rows matched)
affectedRows(t, id) == IF Exists(t, id) THEN 1 ELSE 0

\* products[0]
First(rows) == IF rows = <<>> THEN NoRow ELSE rows[1]

-----------------------------------------------------------------------------
(* Product Resource API: the router's handlers. *)

Idle == [pc |-> "idle", id |-> 0, body |-> FullBody]

\* A response; to, op, id and body repeat the request it answers.
Response(c, op, id, body, status, message, row, rows) ==
    [to |-> c, op |-> op, id |-> id, body |-> body, status |-> status,
     message |-> message, row |-> row, rows |-> rows]

\* A step that sends nothing.
NoResponse == [to |-> "", op |-> "", id |-> 0, body |-> FullBody, status |-> 0,
               message |-> "", row |-> NoRow, rows |-> <<>>]

Send(c, r) == resp' = r

\* catch: res.status(500).json({ message })
Fail(c, op, id, body, message) ==
    /\ Send(c, Response(c, op, id, body, 500, message, NoRow, <<>>))
    /\ handler' = [handler EXCEPT ![c] = Idle]

\* The check POST makes of its body.
MissingRequired(body) ==
    Falsy(body.name) \/ Falsy(body.price) \/ Falsy(body.description) \/ Falsy(body.category)

\* router.get("/")
GetAll(c) ==
    /\ handler[c].pc = "idle"
    /\ \/ Send(c, Response(c, "LIST", 0, FullBody, 200, "", NoRow, SqlSelectAll(table)))
       \/ Send(c, Response(c, "LIST", 0, FullBody, 500, "Failed to fetch products", NoRow, <<>>))
    /\ UNCHANGED <<table, nextId, handler, deleted, clientVars>>

\* router.get("/:id")
GetOne(c, id) ==
    /\ handler[c].pc = "idle"
    /\ \/ LET found == SqlSelectById(table, id) IN
          IF Len(found) = 0
          THEN Send(c, Response(c, "GET", id, FullBody, 404, "Product not found", NoRow, <<>>))
          ELSE Send(c, Response(c, "GET", id, FullBody, 200, "", found[1], <<>>))
       \/ Send(c, Response(c, "GET", id, FullBody, 500, "Failed to fetch product", NoRow, <<>>))
    /\ UNCHANGED <<table, nextId, handler, deleted, clientVars>>

\* router.post("/") up to the end of its INSERT
PostInsert(c, body) ==
    /\ handler[c].pc = "idle"
    /\ IF MissingRequired(body)
       THEN /\ Send(c, Response(c, "POST", 0, body, 400, "Missing required fields", NoRow, <<>>))
            /\ UNCHANGED <<table, nextId, handler>>
       ELSE \/ /\ nextId <= MaxRows
               /\ table' = SqlInsert(table, body)
               /\ nextId' = nextId + 1
               /\ handler' = [handler EXCEPT ![c] = [pc |-> "postSelect", id |-> nextId, body |-> body]]
               /\ resp' = NoResponse
            \/ /\ Fail(c, "POST", 0, body, "Failed to create product")
               /\ UNCHANGED <<table, nextId>>
    /\ UNCHANGED <<deleted, clientVars>>

\* router.post("/") from its SELECT to the response
PostSelect(c) ==
    /\ handler[c].pc = "postSelect"
    /\ LET h == handler[c] IN
       \/ /\ Send(c, Response(c, "POST", h.id, h.body, 201, "",
                              First(SqlSelectById(table, h.id)), <<>>))
          /\ handler' = [handler EXCEPT ![c] = Idle]
       \/ Fail(c, "POST", h.id, h.body, "Failed to create product")
    /\ UNCHANGED <<table, nextId, deleted, clientVars>>

\* router.put("/:id") up to the end of its UPDATE
PutUpdate(c, id, body) ==
    /\ handler[c].pc = "idle"
    /\ \/ IF affectedRows(table, id) = 0
          THEN /\ Send(c, Response(c, "PUT", id, body, 404, "Product not found", NoRow, <<>>))
               /\ UNCHANGED <<table, handler>>
          ELSE /\ table' = SqlUpdate(table, id, body)
               /\ handler' = [handler EXCEPT ![c] = [pc |-> "putSelect", id |-> id, body |-> body]]
               /\ resp' = NoResponse
       \/ /\ Fail(c, "PUT", id, body, "Failed to update product")
          /\ UNCHANGED table
    /\ UNCHANGED <<nextId, deleted, clientVars>>

\* router.put("/:id") from its SELECT to the response
PutSelect(c) ==
    /\ handler[c].pc = "putSelect"
    /\ LET h == handler[c] IN
       \/ /\ Send(c, Response(c, "PUT", h.id, h.body, 200, "",
                              First(SqlSelectById(table, h.id)), <<>>))
          /\ handler' = [handler EXCEPT ![c] = Idle]
       \/ Fail(c, "PUT", h.id, h.body, "Failed to update product")
    /\ UNCHANGED <<table, nextId, deleted, clientVars>>

\* router.delete("/:id")
Delete(c, id) ==
    /\ handler[c].pc = "idle"
    /\ \/ IF affectedRows(table, id) = 0
          THEN /\ Send(c, Response(c, "DELETE", id, FullBody, 404, "Product not found", NoRow, <<>>))
               /\ UNCHANGED <<table, deleted>>
          ELSE /\ table' = SqlDelete(table, id)
               /\ Send(c, Response(c, "DELETE", id, FullBody, 200, "Product deleted", NoRow, <<>>))
               /\ deleted' = deleted \cup {id}
       \/ /\ Send(c, Response(c, "DELETE", id, FullBody, 500, "Failed to delete product", NoRow, <<>>))
          /\ UNCHANGED <<table, deleted>>
    /\ UNCHANGED <<nextId, handler, clientVars>>

-----------------------------------------------------------------------------
(* The client on its own. *)

InitClient ==
    /\ title = <<>> /\ price = <<>> /\ description = <<>> /\ category = <<>>
    /\ imageB64 = <<>> /\ previewSrc = <<>>
    /\ submitting = FALSE /\ formError = Null /\ success = Null
    /\ calls = <<>> /\ reads = <<>>
    /\ products = <<>> /\ loading = TRUE /\ pageError = Null
    /\ viewPc = "fetch"
    /\ fetched = <<>> /\ created = <<>> /\ fetchFailed = FALSE /\ submitCount = 0

InitServer ==
    /\ table = <<>>
    /\ nextId = 1
    /\ handler = [c \in Clients |-> Idle]
    /\ resp = NoResponse
    /\ deleted = {}

Init == InitClient /\ InitServer

NextClient ==
    \/ PageFetchReject \/ PageFetchResponse \/ PageJsonResolve \/ PageJsonReject
    \/ setTitle \/ setPrice \/ setDescription \/ setCategory \/ ResetClick
    \/ handleImageChange \/ ImageLoaded \/ ImageFailed
    \/ handleSubmit
    \/ SubmitFetchReject \/ SubmitFetchResponse
    \/ SubmitTextResolve \/ SubmitTextReject
    \/ SubmitJsonResolve \/ SubmitJsonReject

SpecClient == Init /\ [][NextClient]_vars

-----------------------------------------------------------------------------
(* The server on its own: requests of two clients, interleaved at the awaits. *)

NextServer ==
    \E c \in Clients :
        \/ GetAll(c)
        \/ \E id \in RequestIds : GetOne(c, id)
        \/ \E body \in Bodies : PostInsert(c, body)
        \/ PostSelect(c)
        \/ \E id \in RequestIds, body \in PutBodies : PutUpdate(c, id, body)
        \/ PutSelect(c)
        \/ \E id \in RequestIds : Delete(c, id)

SpecServer == Init /\ [][NextServer]_vars

-----------------------------------------------------------------------------
(* Properties of the client. *)

\* Some character of s is not whitespace.
HasText(s) == \E i \in 1..Len(s) : s[i] # " " /\ s[i] # "\t"

\* The price texts of PriceInputs that denote a number above zero.
PositivePriceTexts == {<<"0", ".", "5">>}

\* t is s without its leading and trailing whitespace.
IsTrimOf(t, s) ==
    /\ t = <<>> \/ (t[1] \notin {" ", "\t"} /\ t[Len(t)] \notin {" ", "\t"})
    /\ \E a \in 0..Len(s) :
          /\ a + Len(t) <= Len(s)
          /\ SubSeq(s, a + 1, a + Len(t)) = t
          /\ \A k \in 1..Len(s) : (k <= a \/ k > a + Len(t)) => s[k] \in {" ", "\t"}

\* The number a price text of PriceInputs denotes, as num / 10^scale.
PriceValue(s) ==
    CASE s = <<"0", ".", "5">> -> [nan |-> FALSE, num |-> 5, scale |-> 1]
      [] s = <<"-", "5">> -> [nan |-> FALSE, num |-> -5, scale |-> 0]
      [] OTHER -> [nan |-> FALSE, num |-> 0, scale |-> 0]

FieldsEmpty ==
    /\ title = <<>> /\ price = <<>> /\ description = <<>> /\ category = <<>>
    /\ imageB64 = <<>> /\ previewSrc = <<>>

\* C1: allValid is false if title, description or category is empty or
\* whitespace-only, or the price is not numerically above 0, or no image
\* payload is held, or a submission is in flight; it is true otherwise.
C1_AllValidIffEveryFieldValid ==
    allValid <=> /\ HasText(title)
                 /\ HasText(description)
                 /\ HasText(category)
                 /\ price \in PositivePriceTexts
                 /\ imageB64 # <<>>
                 /\ calls = <<>>

\* A whitespace-only title keeps an otherwise complete form invalid.
C1_Witness ==
    /\ title = <<" ">> /\ description = <<"d">> /\ category = <<"c", " ">>
    /\ price = <<"0", ".", "5">> /\ imageB64 # <<>> /\ calls = <<>>
    /\ ~allValid

\* C2: at most one create request of the form is outstanding at any time.
C2_AtMostOneCreateOutstanding == Len(calls) <= 1

\* A request is outstanding while the fields would pass validation again.
C2_Witness ==
    /\ Len(calls) = 1
    /\ HasText(title) /\ HasText(description) /\ HasText(category)
    /\ price \in PositivePriceTexts /\ imageB64 # <<>>

\* p is the created record d as the list shows it: d's fields, and a zero
\* rating if d came without a rating.
ShownAs(p, d) ==
    /\ p.id = d.id /\ p.title = d.title /\ p.price = d.price
    /\ p.description = d.description /\ p.image = d.image /\ p.category = d.category
    /\ d.rating = NoRating => p.rating = ZeroRating

\* C3: once the initial fetch has succeeded, the list is the created records,
\* newest first, followed by the fetched records in the order received.
C3_ListIsCreatedNewestFirstThenFetched ==
    (viewPc = "done" /\ ~fetchFailed) =>
        /\ Len(products) = Len(created) + Len(fetched)
        /\ \A i \in 1..Len(created) : ShownAs(products[i], created[Len(created) + 1 - i])
        /\ \A j \in 1..Len(fetched) : products[Len(created) + j] = fetched[j]

\* Two different records were created after a non-empty fetch, the first
\* without a rating.
C3_Witness ==
    /\ viewPc = "done" /\ ~fetchFailed /\ fetched # <<>>
    /\ Len(created) = 2 /\ created[1] # created[2]
    /\ created[1].rating = NoRating

\* C4: the page renders loading, error or ready; loading until the mount
\* effect has finished; and once the initial fetch has rejected or answered
\* with a non-2xx status it renders error, never ready.
C4_FailedFetchRendersErrorNeverReady ==
    /\ renderState \in {"loading", "error", "ready"}
    /\ viewPc # "done" => renderState = "loading"
    /\ (fetchFailed /\ viewPc = "done") => (renderState = "error" /\ products = <<>>)
    /\ fetchFailed => renderState # "ready"

\* The fetch answered 500 and the page shows the error.
C4_Witness ==
    /\ fetchFailed /\ viewPc = "done"
    /\ pageError = <<"HTTP ", "500">> /\ renderState = "error"

\* C8: when a create succeeds, at the moment handleSubmit completes the
\* confirmation is set, every field is empty, the success callback has been
\* called exactly once with the created record and submitting is false again;
\* and the payload a submission sends is built from the trimmed text fields
\* and the numeric price as they are when it starts.
C8_SuccessResetsAndCallsBack ==
    [][ /\ created' # created =>
            /\ success' = <<"Product created successfully!">>
            /\ FieldsEmpty'
            /\ Len(created') = Len(created) + 1
            /\ SubSeq(created', 1, Len(created)) = created
            /\ \E i \in 1..Len(calls) :
                  /\ calls[i].pc = "json"
                  /\ calls' = RemoveAt(calls, i)
                  /\ created'[Len(created')] \in CreateResponses(calls[i].payload, Len(created))
            /\ ~submitting'
        /\ Len(calls') > Len(calls) =>
            LET sent == calls'[Len(calls')].payload IN
            /\ IsTrimOf(sent.title, title)
            /\ IsTrimOf(sent.description, description)
            /\ IsTrimOf(sent.category, category)
            /\ sent.price = PriceValue(price)
            /\ sent.image = imageB64
      ]_vars

\* A create has just succeeded: confirmation shown, form empty, idle.
C8_Witness ==
    /\ Len(created) = 1 /\ calls = <<>> /\ submitCount = 1
    /\ success = <<"Product created successfully!">>
    /\ FieldsEmpty /\ ~submitting
    /\ created[1].title = <<"a">>

\* C9: when a create fails, handleSubmit sets an error message (with the
\* status and the response body when a non-success response was read), calls
\* no success callback, sets no confirmation, leaves the fields unchanged,
\* issues no further request and sets submitting to false.
C9_FailureKeepsFieldsAndReenables ==
    [][ (Len(calls') < Len(calls) /\ created' = created) =>
            /\ Truthy(formError')
            /\ \E i \in 1..Len(calls) :
                  /\ calls' = RemoveAt(calls, i)
                  /\ calls[i].pc = "text" =>
                        \/ \E text \in ErrorBodies :
                              formError' = <<"HTTP ", StatusText(calls[i].status), " - ">> \o text
                        \/ formError' \in {<<"Failed to fetch">>, <<"Failed to submit product.">>}
            /\ products' = products
            /\ success' = Null
            /\ UNCHANGED fieldVars
            /\ submitCount' = submitCount
            /\ Len(calls') = Len(calls) - 1
            /\ ~submitting'
      ]_vars

\* A create was answered 500: the error shows status and body, the fields
\* are as typed, and the form is valid again.
C9_Witness ==
    /\ formError = <<"HTTP ", "500", " - ", "oops">>
    /\ calls = <<>> /\ submitCount = 1 /\ created = <<>>
    /\ success = Null /\ allValid

\* C10: the error message and the confirmation are never both set.
C10_ErrorAndSuccessNeverBothSet == ~(formError # Null /\ success # Null)

-----------------------------------------------------------------------------
(* Properties of the server. *)

\* A required field of the body is absent.
AnyRequiredAbsent(body) ==
    \E v \in {body.name, body.price, body.description, body.category} : v.t = "undefined"

\* The row carries the body's fields and an assigned id.
RowMatches(row, body) ==
    /\ row.id >= 1
    /\ row.name = body.name /\ row.price = body.price
    /\ row.description = body.description /\ row.category = body.category
    /\ row.image = (IF body.image.t = "undefined" THEN Jnull ELSE body.image)

RowIds(rows) == {rows[i].id : i \in 1..Len(rows)}
LiveIds(t) == {i \in 1..Len(t) : t[i] # NoRow}

\* C5: unless a data-access fault is answered with 500, POST answers 400 with
\* a message and inserts no row when a required field is absent, and when all
\* four are present, whatever their values, it inserts exactly one row and
\* answers 201 with a row matching the input plus an assigned id.
C5_PostRejectsOnlyAbsentFields ==
    [][ /\ (resp'.op = "POST" /\ resp'.status # 500) =>
            IF AnyRequiredAbsent(resp'.body)
            THEN resp'.status = 400 /\ resp'.message # "" /\ table' = table
            ELSE resp'.status = 201 /\ RowMatches(resp'.row, resp'.body)
        /\ \A c \in Clients :
              (handler[c].pc = "idle" /\ handler'[c].pc = "postSelect") =>
                  /\ Len(table') = Len(table) + 1
                  /\ SubSeq(table', 1, Len(table)) = table
      ]_vars

\* C6: unless a data-access fault is answered with 500, DELETE of an id with
\* no row answers 404 and leaves the table unchanged; DELETE of an existing id
\* removes exactly that row and answers "Product deleted"; and no later list
\* returns a deleted row.
C6_DeleteRemovesExactlyThatRow ==
    [][ /\ (resp'.op = "DELETE" /\ resp'.status # 500) =>
            IF resp'.id \in LiveIds(table)
            THEN /\ resp'.status = 200 /\ resp'.message = "Product deleted"
                 /\ Len(table') = Len(table)
                 /\ LiveIds(table') = LiveIds(table) \ {resp'.id}
                 /\ \A i \in LiveIds(table') : table'[i] = table[i]
            ELSE resp'.status = 404 /\ table' = table
        /\ (resp'.op = "LIST" /\ resp'.status = 200) =>
            /\ RowIds(resp'.rows) \cap deleted' = {}
            /\ RowIds(resp'.rows) = LiveIds(table')
      ]_vars

\* A list answered after a delete, with a row still there.
C6_Witness ==
    /\ deleted # {}
    /\ resp.op = "LIST" /\ resp.status = 200 /\ Len(resp.rows) = 1

\* C7: whenever POST answers 201 or PUT answers 200, the body is the record
\* of that id, never an absent one; and PUT answers 404 exactly when no row
\* matched the id.
C7_SuccessBodyIsTheRecord ==
    [][ /\ (resp'.op \in {"POST", "PUT"} /\ resp'.status \in {200, 201}) =>
            (resp'.row # NoRow /\ resp'.row.id = resp'.id)
        /\ (resp'.op = "PUT" /\ resp'.status = 404) => resp'.id \notin LiveIds(table)
        /\ \A c \in Clients :
              (handler[c].pc = "idle" /\ handler'[c].pc = "putSelect") =>
                  handler'[c].id \in LiveIds(table)
      ]_vars

=============================================================================
